---- MODULE Spec2Model ----
(***************************************************************************)
(* Travel planning state machine of stategraph.py, driven by the CLI       *)
(* (main.py) and the Streamlit front end (web_api.py).                     *)
(*                                                                         *)
(* Texts are abstracted to the kind of text they are (which code path      *)
(* produced them); messages are abstracted to their roles.  The            *)
(* collaborators (language model, selector, tools) are nondeterministic:   *)
(* every call either raises or returns.                                    *)
(***************************************************************************)
EXTENDS Naturals, Integers, Sequences, FiniteSets, TLC

VARIABLES
    state,               \* the TravelState (CLI local `state` / st.session_state.current_state)
    frontend,            \* who drives the engine: "cli", "web" or "direct" (a direct API call)
    auto_approve,        \* run_travel_planner's auto_approve argument
    pc,                  \* position of the driver
    node,                \* next node of the compiled graph, "idle" outside travel_graph.invoke
    ss_awaiting_review,  \* st.session_state.awaiting_review
    trace,               \* phase functions executed so far, in order
    called,              \* last engine entry point called
    arg,                 \* <<s>>: the state given to that call (<<>> before any call)
    ret,                 \* value returned by route_after_review, or the text a fallback
                         \* template built ("none" before any call)
    rounds,              \* review decisions taken so far
    last_decision,       \* the last review decision
    outcome,             \* <<c>>: what the collaborator did in the last phase executed
    tool_pos,            \* run_tools step by step: the tool block control is at (0: not inside)
    inflight,            \* the tools whose invoke was entered and has neither returned nor raised
    locals               \* the local variables tool_results and notes of run_tools

\* the variables of a run_tools call that is followed step by step
toolvars == <<tool_pos, inflight, locals>>

vars == <<state, frontend, auto_approve, pc, node, ss_awaiting_review,
          trace, called, arg, ret, rounds, last_decision, outcome,
          tool_pos, inflight, locals>>

----------------------------------------------------------------------------
(* Program constants and bounds *)

MAX_ITERATIONS == 5

\* cap on the review decisions of one session (the web front end has no cap)
MaxRounds == 7

None == "<None>"

REGENERATE == "regenerate from scratch"

Tools == {"find_flights", "find_hotels", "attraction_finder", "weather_checker"}

\* a language-model call raises, returns text, or returns an empty content
LlmOutcomes == {"raise", "text", "empty"}

\* response.content of a call that returned: the text, or ""
Content(llm, text) == IF llm = "empty" THEN "" ELSE text

\* a tool call raises, returns live data or returns text carrying "mock"
ToolOutcomes == {"raise", "live", "mock"}

\* the order in which the code names the tools
ToolOrder == <<"find_flights", "find_hotels", "attraction_finder", "weather_checker">>

\* Response texts of the selector are sequences of tokens: brackets, commas,
\* JSON strings (double-quoted), single-quoted names (not JSON) and prose.
Quote(t) == "\"" \o t \o "\""

JsonStrings == {Quote(t) : t \in Tools}

ResponseTokens == {"[", "]", ",", Quote("find_flights"), "'find_hotels'", "Sure"}

\* longest response text that is enumerated token by token
MaxResponseLen == 2

RECURSIVE Elements(_, _)
\* the elements of the JSON array naming the tools of T, from position i of ToolOrder
Elements(T, i) ==
    IF i > Len(ToolOrder) THEN <<>>
    ELSE LET rest == Elements(T, i + 1) IN
         IF ToolOrder[i] \notin T THEN rest
         ELSE IF rest = <<>> THEN <<Quote(ToolOrder[i])>>
         ELSE <<Quote(ToolOrder[i]), ",">> \o rest

ArrayOf(T) == <<"[">> \o Elements(T, 1) \o <<"]">>

\* the response texts of the model: every short token sequence, the JSON
\* array of every selection (bare or inside prose), and malformed arrays
Responses ==
    UNION {[1..n -> ResponseTokens] : n \in 0..MaxResponseLen}
    \cup {ArrayOf(T) : T \in SUBSET Tools}
    \cup {<<"Sure">> \o ArrayOf(T) : T \in SUBSET Tools}
    \cup {ArrayOf(T) \o <<"Sure">> : T \in SUBSET Tools}
    \cup {<<"[", "'find_flights'", ",", "'find_hotels'", "]">>,
          <<"[", Quote("find_flights"), ",", "]">>,
          <<"[", Quote("find_flights"), Quote("find_hotels"), "]">>,
          <<"[", "[", Quote("find_hotels"), "]", "]">>,
          <<"[", Quote("find_flights"), "]", "Sure", "[", Quote("find_hotels"), "]">>,
          <<"]", "Sure", "[", Quote("weather_checker")>>}

\* the selector raises or returns a response text
SelectorOutcomes ==
    {[kind |-> "raise", text |-> <<>>]}
    \cup {[kind |-> "text", text |-> r] : r \in Responses}

----------------------------------------------------------------------------
(* Python helpers *)

\* truth value of an Optional[str]
Truthy(v) == v # None /\ v # ""

\* str.strip() on the request texts of the model
strip(s) == IF s = " " THEN "" ELSE s

\* key of tool_results under which run_tools stores a tool's result
ToolKey(t) ==
    CASE t = "find_flights" -> "flights"
      [] t = "find_hotels" -> "hotels"
      [] t = "attraction_finder" -> "attractions"
      [] t = "weather_checker" -> "weather"

\* str.find and str.rfind on a token sequence, with Python's 0-based result
find(toks, x) ==
    IF \E i \in 1..Len(toks) : toks[i] = x
    THEN (CHOOSE i \in 1..Len(toks) :
            toks[i] = x /\ \A j \in 1..(i - 1) : toks[j] # x) - 1
    ELSE -1

rfind(toks, x) ==
    IF \E i \in 1..Len(toks) : toks[i] = x
    THEN (CHOOSE i \in 1..Len(toks) :
            toks[i] = x /\ \A j \in (i + 1)..Len(toks) : toks[j] # x) - 1
    ELSE -1

RECURSIVE ParseValue(_, _), ParseElements(_, _, _)
\* json.loads: the position after the JSON value that starts at i, 0 if there is none
ParseValue(toks, i) ==
    IF i > Len(toks) THEN 0
    ELSE IF toks[i] \in JsonStrings THEN i + 1
    ELSE IF toks[i] = "[" THEN ParseElements(toks, i + 1, TRUE)
    ELSE 0

\* the rest of an array from position i; first: no element was read yet
ParseElements(toks, i, first) ==
    IF i > Len(toks) THEN 0
    ELSE IF first /\ toks[i] = "]" THEN i + 1
    ELSE LET j == ParseValue(toks, i) IN
         IF j = 0 \/ j > Len(toks) THEN 0
         ELSE IF toks[j] = "]" THEN j + 1
         ELSE IF toks[j] = "," THEN ParseElements(toks, j + 1, FALSE)
         ELSE 0

\* json.loads(json_str) does not raise JSONDecodeError
json_loads_ok(toks) == ParseValue(toks, 1) = Len(toks) + 1

\* nesting depth of position i of a token sequence
Depth(toks, i) ==
    Cardinality({j \in 1..(i - 1) : toks[j] = "["})
    - Cardinality({j \in 1..(i - 1) : toks[j] = "]"})

\* the tool names among the elements of the parsed array
json_loads(toks) ==
    {t \in Tools : \E i \in 1..Len(toks) : toks[i] = Quote(t) /\ Depth(toks, i) = 1}

\* decide_tools, "Parse JSON list from response"
parse_selection(response_text) ==
    LET start_idx == find(response_text, "[")
        end_idx == rfind(response_text, "]") + 1
    IN IF start_idx >= 0 /\ end_idx > start_idx
       THEN LET json_str == SubSeq(response_text, start_idx + 1, end_idx)
            IN IF json_loads_ok(json_str) THEN json_loads(json_str) ELSE {}
       ELSE {}

has_flights(s) == Truthy(s.origin) /\ Truthy(s.destination) /\ Truthy(s.depart_date)
\* the hotels test without check_out
has_hotels_nocheckout(s) == Truthy(s.destination) /\ Truthy(s.check_in)

has_hotels(s) == Truthy(s.destination) /\ Truthy(s.check_in) /\ Truthy(s.check_out)
has_dest(s) == Truthy(s.destination)

\* the flights test without depart_date
Prereq_nodate(s, t) ==
    CASE t = "find_flights" -> Truthy(s.origin) /\ Truthy(s.destination)
      [] t = "find_hotels" -> has_hotels(s)
      [] t = "attraction_finder" -> has_dest(s)
      [] t = "weather_checker" -> has_dest(s)

\* the required fields of a tool are present (the `if` around each invoke)
Prereq(s, t) ==
    CASE t = "find_flights" -> has_flights(s)
      [] t = "find_hotels" -> has_hotels(s)
      [] t = "attraction_finder" -> has_dest(s)
      [] t = "weather_checker" -> has_dest(s)

----------------------------------------------------------------------------
(* Phase functions *)

\* enhance_request that tests the request without stripping it
enhance_request_nostrip(s, llm) ==
    IF s.request = ""
    THEN [s EXCEPT !.notes = <<"request missing">>, !.draft_plan = "", !.plan = ""]
    ELSE [s EXCEPT
            !.draft_plan = IF llm = "raise" THEN "Mock: Clarified travel request"
                                            ELSE Content(llm, "clarified request"),
            !.messages = @ \o <<"user", "assistant">>,
            !.notes = Append(@, "request enhanced")]

enhance_request(s, llm) ==
    IF strip(s.request) = ""
    THEN [s EXCEPT !.notes = <<"request missing">>, !.draft_plan = "", !.plan = ""]
    ELSE [s EXCEPT
            !.draft_plan = IF llm = "raise" THEN "Mock: Clarified travel request"
                                            ELSE Content(llm, "clarified request"),
            !.messages = @ \o <<"user", "assistant">>,
            !.notes = Append(@, "request enhanced")]

\* draft_plan whose except branch appends the fallback text only
draft_plan_lostprompt(s, llm) ==
    [s EXCEPT
        !.draft_plan = IF llm = "raise" THEN "Day-by-Day Outline"
                                        ELSE Content(llm, "draft itinerary"),
        !.messages = IF llm = "raise" THEN @ \o <<"assistant">>
                                      ELSE @ \o <<"user", "assistant">>,
        !.notes = Append(@, "draft " \o ToString(s.duration) \o "-day plan created")]

draft_plan(s, llm) ==
    [s EXCEPT
        !.draft_plan = IF llm = "raise" THEN "Day-by-Day Outline"
                                        ELSE Content(llm, "draft itinerary"),
        !.messages = @ \o <<"user", "assistant">>,
        !.notes = Append(@, "draft " \o ToString(s.duration) \o "-day plan created")]

\* decide_tools that uses the prerequisite fallback when nothing was parsed
decide_tools_parsefallback(s, sel) ==
    LET fallback ==
            (IF has_flights(s) THEN {"find_flights"} ELSE {})
            \cup (IF has_hotels(s) THEN {"find_hotels"} ELSE {})
            \cup (IF has_dest(s) THEN {"attraction_finder", "weather_checker"} ELSE {})
        selected ==
            IF sel.kind = "raise" \/ parse_selection(sel.text) = {}
            THEN fallback
            ELSE parse_selection(sel.text)
    IN [s EXCEPT
            !.selected_tools = selected,
            !.messages = @ \o <<"user", "assistant">>,
            !.notes = Append(@, "tool selection: " \o ToString(selected))]

\* decide_tools whose fallback selects every tool, whatever data is available
decide_tools_alltools(s, sel) ==
    LET selected ==
            IF sel.kind = "raise" THEN Tools ELSE parse_selection(sel.text)
    IN [s EXCEPT
            !.selected_tools = selected,
            !.messages = @ \o <<"user", "assistant">>,
            !.notes = Append(@, "tool selection: " \o ToString(selected))]

decide_tools(s, sel) ==
    LET selected ==
            IF sel.kind = "raise"
            THEN (IF has_flights(s) THEN {"find_flights"} ELSE {})
                 \cup (IF has_hotels(s) THEN {"find_hotels"} ELSE {})
                 \cup (IF has_dest(s) THEN {"attraction_finder", "weather_checker"} ELSE {})
            ELSE parse_selection(sel.text)
    IN [s EXCEPT
            !.selected_tools = selected,
            !.messages = @ \o <<"user", "assistant">>,
            !.notes = Append(@, "tool selection: " \o ToString(selected))]

\* run_tools that does not look at selected_tools
Invoked_unselected(s) == {t \in Tools : Prereq(s, t)}

\* the tools run_tools invokes: selected and with their required fields
Invoked(s) == {t \in Tools : t \in s.selected_tools /\ Prereq(s, t)}

\* the note run_tools appends for one tool
ToolNote(s, t, out) ==
    IF t \notin s.selected_tools THEN <<>>
    ELSE IF ~Prereq(s, t) THEN <<ToolKey(t) \o ": skipped">>
    ELSE IF out[t] = "raise" THEN <<ToolKey(t) \o ": error">>
    ELSE IF out[t] = "mock" THEN <<ToolKey(t) \o ": mock data">>
    ELSE <<ToolKey(t) \o ": live data">>

\* the text run_tools stores for an invoked tool
ToolText(o) ==
    CASE o = "raise" -> "Error: failed"
      [] o = "mock" -> "mock data"
      [] o = "live" -> "live data"

\* position of a tool in the sequence of run_tools
ToolIndex(t) ==
    CASE t = "find_flights" -> 1
      [] t = "find_hotels" -> 2
      [] t = "attraction_finder" -> 3
      [] t = "weather_checker" -> 4

\* a tool invoke that is dispatched without waiting: control moves on
DuringInvoke_async(i) == i + 1

\* where control is while a tool's invoke is in progress: tool.invoke is a
\* blocking call, control stays in the block of the tool
DuringInvoke(i) == i

\* run_tools with one try around the four tools: the first failure ends the sequence
run_tools_abort(s, out) ==
    LET failed == {t \in Invoked(s) : out[t] = "raise"}
        reached == {t \in Tools : \A u \in failed : ToolIndex(u) >= ToolIndex(t)}
        note(t) == IF t \in reached THEN ToolNote(s, t, out) ELSE <<>>
    IN [s EXCEPT
        !.tool_results =
            [k \in {ToolKey(t) : t \in Invoked(s) \cap reached} |->
                ToolText(out[CHOOSE t \in Tools : ToolKey(t) = k])],
        !.notes = @ \o note("find_flights") \o note("find_hotels")
                    \o note("attraction_finder") \o note("weather_checker")
                    \o <<"tools executed sequentially">>]

run_tools(s, out) ==
    [s EXCEPT
        !.tool_results =
            [k \in {ToolKey(t) : t \in Invoked(s)} |->
                ToolText(out[CHOOSE t \in Tools : ToolKey(t) = k])],
        !.notes = @ \o ToolNote(s, "find_flights", out)
                    \o ToolNote(s, "find_hotels", out)
                    \o ToolNote(s, "attraction_finder", out)
                    \o ToolNote(s, "weather_checker", out)
                    \o <<"tools executed sequentially">>]


\* refine_plan whose except branch produces no text of its own
refine_plan_nofallback(s, llm) ==
    [s EXCEPT
        !.plan = IF llm = "raise" THEN s.plan
                                  ELSE Content(llm, "refined itinerary"),
        !.messages = @ \o <<"user", "assistant">>,
        !.approved = FALSE,
        !.human_feedback = None,
        !.notes = Append(@, "plan refined with tool results")]

\* refine_plan that restarts the iteration counter
refine_plan_restart(s, llm) ==
    [s EXCEPT
        !.plan = IF llm = "raise" THEN "fallback itinerary"
                                  ELSE Content(llm, "refined itinerary"),
        !.messages = @ \o <<"user", "assistant">>,
        !.approved = FALSE,
        !.human_feedback = None,
        !.iteration_count = 0,
        !.notes = Append(@, "plan refined with tool results")]

\* refine_plan whose fallback path leaves approved and human_feedback alone
refine_plan_keepreview(s, llm) ==
    [s EXCEPT
        !.plan = IF llm = "raise" THEN "fallback itinerary"
                                  ELSE Content(llm, "refined itinerary"),
        !.messages = @ \o <<"user", "assistant">>,
        !.approved = IF llm = "raise" THEN @ ELSE FALSE,
        !.human_feedback = IF llm = "raise" THEN @ ELSE None,
        !.notes = Append(@, "plan refined with tool results")]

refine_plan(s, llm) ==
    [s EXCEPT
        !.plan = IF llm = "raise" THEN "fallback itinerary"
                                  ELSE Content(llm, "refined itinerary"),
        !.messages = @ \o <<"user", "assistant">>,
        !.approved = FALSE,
        !.human_feedback = None,
        !.notes = Append(@, "plan refined with tool results")]


\* human_review that forgets to raise the pause flag
human_review_noflag(s) ==
    [s EXCEPT
        !.notes = Append(@, "awaiting human review (iteration "
                            \o ToString(s.iteration_count + 1) \o "/"
                            \o ToString(MAX_ITERATIONS) \o ")")]

\* human_review that also withdraws an approval
human_review_unapprove(s) ==
    [s EXCEPT
        !.awaiting_review = TRUE,
        !.approved = FALSE,
        !.notes = Append(@, "awaiting human review (iteration "
                            \o ToString(s.iteration_count + 1) \o "/"
                            \o ToString(MAX_ITERATIONS) \o ")")]

human_review(s) ==
    [s EXCEPT
        !.awaiting_review = TRUE,
        !.notes = Append(@, "awaiting human review (iteration "
                            \o ToString(s.iteration_count + 1) \o "/"
                            \o ToString(MAX_ITERATIONS) \o ")")]


\* route_after_review whose last rules are swapped for a plain "end"
route_after_review_noforce(s) ==
    IF s.awaiting_review THEN "end"
    ELSE IF s.approved THEN "finalize"
    ELSE IF Truthy(s.human_feedback) THEN "refine"
    ELSE IF s.iteration_count >= MAX_ITERATIONS THEN "finalize"
    ELSE "end"

\* route_after_review that takes an empty feedback text for feedback
route_after_review_emptyfeedback(s) ==
    IF s.awaiting_review THEN "end"
    ELSE IF s.approved THEN "finalize"
    ELSE IF s.human_feedback # None /\ s.iteration_count < MAX_ITERATIONS THEN "refine"
    ELSE IF s.iteration_count >= MAX_ITERATIONS THEN "finalize"
    ELSE "end"

\* route_after_review that looks at the iteration bound before awaiting_review
route_after_review_boundfirst(s) ==
    IF s.iteration_count >= MAX_ITERATIONS THEN "finalize"
    ELSE IF s.awaiting_review THEN "end"
    ELSE IF s.approved THEN "finalize"
    ELSE IF Truthy(s.human_feedback) THEN "refine"
    ELSE "end"

route_after_review(s) ==
    IF s.awaiting_review THEN "end"
    ELSE IF s.approved THEN "finalize"
    ELSE IF Truthy(s.human_feedback) /\ s.iteration_count < MAX_ITERATIONS THEN "refine"
    ELSE IF s.iteration_count >= MAX_ITERATIONS THEN "finalize"
    ELSE "end"

finalize(s) ==
    [s EXCEPT
        !.plan = IF s.plan = "" /\ s.draft_plan # "" THEN s.draft_plan ELSE s.plan,
        !.awaiting_review = FALSE,
        !.approved = TRUE,
        !.notes = Append(@, "itinerary finalized")]

----------------------------------------------------------------------------
(* Fallback templates.  A tool result text is a sequence of words; the    *)
(* texts the templates build are kept by their structure.                 *)

\* a listing long enough to fill the 300 characters refine_plan keeps
LongListing == "listings (300 characters)"

TextWords ==
    {"Error:", "error:", "Mock", "demo", "PARTIAL RESULTS", "Suggested attractions",
     "listing", LongListing}

\* str.lower() on a word
lower(w) ==
    CASE w = "Error:" -> "error:"
      [] w = "Mock" -> "mock"
      [] w = "PARTIAL RESULTS" -> "partial results"
      [] w = "Suggested attractions" -> "suggested attractions"
      [] OTHER -> w

\* `marker in text`
Contains(text, marker) == \E i \in 1..Len(text) : text[i] = marker

\* `marker in text.lower()`
ContainsLower(text, marker) == \E i \in 1..Len(text) : lower(text[i]) = marker

\* str(data).startswith("Error")
StartsWithError(text) == text # <<>> /\ text[1] = "Error:"

\* data[:300]: what follows a long listing is cut off
Truncate(text) ==
    IF Contains(text, LongListing)
    THEN SubSeq(text, 1, CHOOSE i \in 1..Len(text) :
                            text[i] = LongListing
                            /\ \A j \in 1..(i - 1) : text[j] # LongListing)
    ELSE text

\* refine_plan, "Build tool summary for context"
tool_summaries(tool_results) ==
    [k \in {x \in DOMAIN tool_results :
                tool_results[x] # <<>> /\ ~StartsWithError(tool_results[x])}
        |-> Truncate(tool_results[k])]

\* the entry of the data-source summary for one key of tool_data
DataSourceLabel(k, text) ==
    CASE k = "hotels" ->
            (IF Contains(text, "PARTIAL RESULTS") \/ ContainsLower(text, "mock")
                    \/ ContainsLower(text, "demo")
             THEN "Partial/fallback data" ELSE "Live data")
      [] k = "weather" ->
            (IF ContainsLower(text, "error:") \/ ContainsLower(text, "mock")
             THEN "Unavailable or estimated" ELSE "Live data")
      [] k = "attractions" ->
            (IF Contains(text, "PARTIAL RESULTS")
                    \/ ContainsLower(text, "suggested attractions")
             THEN "General recommendations" ELSE "Live data")
      [] k = "flights" ->
            (IF ContainsLower(text, "mock") \/ ContainsLower(text, "demo")
             THEN "Demo/sample data" ELSE "Live data")

\* the heading of one day of the day-by-day outline
DayLabel(day, duration) ==
    IF day = 1 THEN "Arrival"
    ELSE IF day = duration THEN "Departure"
    ELSE "Exploration"

\* the text _generate_fallback_itinerary builds: the outline entries in
\* order, the data-source summary and the partial-results flag
generate_fallback_itinerary(tool_data, duration) ==
    LET data_sources ==
            [k \in DOMAIN tool_data \cap {"hotels", "weather", "attractions", "flights"}
                |-> DataSourceLabel(k, tool_data[k])]
    IN [days |-> [day \in 1..duration |->
                    [first |-> day, last |-> day, label |-> DayLabel(day, duration)]],
        data_sources |-> data_sources,
        partial_results |-> \E k \in DOMAIN data_sources : data_sources[k] # "Live data"]

\* the outline of the fallback text of draft_plan: "Day 1: Arrival",
\* "Days 2-{duration-1}: Exploration", "Day {duration}: Departure"
draft_fallback_outline(duration) ==
    <<[first |-> 1, last |-> 1, label |-> "Arrival"],
      [first |-> 2, last |-> duration - 1, label |-> "Exploration"],
      [first |-> duration, last |-> duration, label |-> "Departure"]>>

----------------------------------------------------------------------------
(* Graph engine: the graph compiled by build_graph *)

Nodes == {"enhance", "draft", "decide_tools", "run_tools", "refine",
          "human_review", "finalize"}

\* the collaborator outcomes a node's function consumes
Choices(n, s) ==
    CASE n = "enhance" /\ strip(s.request) = "" -> {"none"}
      [] n \in {"enhance", "draft", "refine"} -> LlmOutcomes
      [] n = "decide_tools" -> SelectorOutcomes
      [] n = "run_tools" -> [Invoked(s) -> ToolOutcomes]
      [] OTHER -> {"none"}

\* graph.add_node: the function registered under each node name
RunNode(n, s, c) ==
    CASE n = "enhance" -> enhance_request(s, c)
      [] n = "draft" -> draft_plan(s, c)
      [] n = "decide_tools" -> decide_tools(s, c)
      [] n = "run_tools" -> run_tools(s, c)
      [] n = "refine" -> refine_plan(s, c)
      [] n = "human_review" -> human_review(s)
      [] n = "finalize" -> finalize(s)

\* edges of a graph that ends the run after enhance_request found no request
NextNode_blankstop(n, s) ==
    CASE n = "enhance" -> (IF strip(s.request) = "" THEN "END" ELSE "draft")
      [] n = "draft" -> "decide_tools"
      [] n = "decide_tools" -> "run_tools"
      [] n = "run_tools" -> "refine"
      [] n = "refine" -> "human_review"
      [] n = "human_review" ->
            (CASE route_after_review(s) = "finalize" -> "finalize"
               [] route_after_review(s) = "refine" -> "refine"
               [] route_after_review(s) = "end" -> "END")
      [] n = "finalize" -> "END"

\* graph.add_edge / graph.add_conditional_edges; s is the state the node returned
NextNode(n, s) ==
    CASE n = "enhance" -> "draft"
      [] n = "draft" -> "decide_tools"
      [] n = "decide_tools" -> "run_tools"
      [] n = "run_tools" -> "refine"
      [] n = "refine" -> "human_review"
      [] n = "human_review" ->
            (CASE route_after_review(s) = "finalize" -> "finalize"
               [] route_after_review(s) = "refine" -> "refine"
               [] route_after_review(s) = "end" -> "END")
      [] n = "finalize" -> "END"


\* the collaborator outcome recorded for a resume: refine_plan, if it ran,
\* consumed the language-model outcome
Consumed(ran, llm, old) ==
    IF \E i \in 1..Len(ran) : ran[i] = "refine" THEN <<llm>> ELSE old

\* continue_after_feedback that returns right after refine_plan
continue_after_feedback_nopause(s, llm) ==
    IF s.approved
    THEN [state |-> finalize(s), ran |-> <<"finalize">>]
    ELSE IF Truthy(s.human_feedback)
    THEN [state |-> refine_plan([s EXCEPT !.awaiting_review = FALSE], llm),
          ran |-> <<"refine">>]
    ELSE [state |-> s, ran |-> <<>>]

\* continue_after_feedback that looks at human_feedback before approved
continue_after_feedback_swapped(s, llm) ==
    IF Truthy(s.human_feedback)
    THEN [state |-> human_review(refine_plan([s EXCEPT !.awaiting_review = FALSE], llm)),
          ran |-> <<"refine", "human_review">>]
    ELSE IF s.approved
    THEN [state |-> finalize(s), ran |-> <<"finalize">>]
    ELSE [state |-> s, ran |-> <<>>]

\* continue_after_feedback that starts over on "regenerate from scratch":
\* the draft and the tool data are dropped and the tools run again
continue_after_feedback_fromscratch(s, llm) ==
    IF s.approved
    THEN [state |-> finalize(s), ran |-> <<"finalize">>]
    ELSE IF s.human_feedback = REGENERATE
    THEN [state |-> human_review(refine_plan(
                        run_tools([s EXCEPT !.awaiting_review = FALSE,
                                            !.draft_plan = "Day-by-Day Outline"],
                                  [t \in Invoked(s) |-> "live"]), llm)),
          ran |-> <<"run_tools", "refine", "human_review">>]
    ELSE IF Truthy(s.human_feedback)
    THEN [state |-> human_review(refine_plan([s EXCEPT !.awaiting_review = FALSE], llm)),
          ran |-> <<"refine", "human_review">>]
    ELSE [state |-> s, ran |-> <<>>]

\* returns the new state and the phase functions it ran
continue_after_feedback(s, llm) ==
    IF s.approved
    THEN [state |-> finalize(s), ran |-> <<"finalize">>]
    ELSE IF Truthy(s.human_feedback)
    THEN [state |-> human_review(refine_plan([s EXCEPT !.awaiting_review = FALSE], llm)),
          ran |-> <<"refine", "human_review">>]
    ELSE [state |-> s, ran |-> <<>>]

----------------------------------------------------------------------------
(* CLI front end (main.py) *)

\* the texts a reviewer types at "What changes would you like?" (an empty
\* answer re-prompts and changes nothing)
Feedbacks == {"cheaper hotels"}

\* choices of the review menu that return from human_review_cli
CliChoices == {"a", "m", "r"}

\* human_review_cli whose approve branch leaves the pause flag set
human_review_cli_keepflag(s, choice, feedback) ==
    CASE choice = "a" ->
            [s EXCEPT !.approved = TRUE,
                      !.iteration_count = s.iteration_count + 1]
      [] choice = "m" ->
            [s EXCEPT !.approved = FALSE, !.awaiting_review = FALSE,
                      !.human_feedback = feedback,
                      !.iteration_count = s.iteration_count + 1]
      [] choice = "r" ->
            [s EXCEPT !.approved = FALSE, !.awaiting_review = FALSE,
                      !.human_feedback = REGENERATE,
                      !.iteration_count = s.iteration_count + 1]

\* human_review_cli that accepts an empty answer to "What changes would you
\* like?" instead of prompting again
human_review_cli_emptyfeedback(s, choice, feedback) ==
    CASE choice = "a" ->
            [s EXCEPT !.approved = TRUE, !.awaiting_review = FALSE,
                      !.iteration_count = s.iteration_count + 1]
      [] choice = "m" ->
            [s EXCEPT !.approved = FALSE, !.awaiting_review = FALSE,
                      !.human_feedback = "",
                      !.iteration_count = s.iteration_count + 1]
      [] choice = "r" ->
            [s EXCEPT !.approved = FALSE, !.awaiting_review = FALSE,
                      !.human_feedback = REGENERATE,
                      !.iteration_count = s.iteration_count + 1]

human_review_cli(s, choice, feedback) ==
    CASE choice = "a" ->
            [s EXCEPT !.approved = TRUE, !.awaiting_review = FALSE,
                      !.iteration_count = s.iteration_count + 1]
      [] choice = "m" ->
            [s EXCEPT !.approved = FALSE, !.awaiting_review = FALSE,
                      !.human_feedback = feedback,
                      !.iteration_count = s.iteration_count + 1]
      [] choice = "r" ->
            [s EXCEPT !.approved = FALSE, !.awaiting_review = FALSE,
                      !.human_feedback = REGENERATE,
                      !.iteration_count = s.iteration_count + 1]


\* the max-iteration branch without "awaiting_review": False
CliForceApprove_keepflag(s) == [s EXCEPT !.approved = TRUE]

\* run_travel_planner, the max-iteration branch at the top of the loop
CliForceApprove(s) == [s EXCEPT !.approved = TRUE, !.awaiting_review = FALSE]

\* run_travel_planner, the auto_approve branch
CliAutoApprove(s) ==
    [s EXCEPT !.approved = TRUE, !.awaiting_review = FALSE,
              !.iteration_count = s.iteration_count + 1]

\* run_travel_planner, `if state.get("awaiting_review")`: the review decision
CliReviewed(s, auto, choice, feedback) ==
    IF s.awaiting_review
    THEN (IF auto THEN CliAutoApprove(s) ELSE human_review_cli(s, choice, feedback))
    ELSE s

\* the decision recorded for a pass of the loop
CliDecision(s, auto, choice) ==
    IF ~s.awaiting_review THEN "none"
    ELSE IF auto THEN "auto"
    ELSE CASE choice = "a" -> "approve" [] choice = "m" -> "modify"
           [] choice = "r" -> "regenerate"

----------------------------------------------------------------------------
(* Web front end (web_api.py) *)

WebActions == {"approve", "modify", "regenerate"}


\* process_user_feedback whose "regenerate" branch does not count the round
WebMutated_nocount(s, action, feedback) ==
    CASE action = "approve" ->
            [s EXCEPT !.approved = TRUE, !.awaiting_review = FALSE,
                      !.iteration_count = s.iteration_count + 1]
      [] action = "modify" ->
            [s EXCEPT !.approved = FALSE, !.awaiting_review = FALSE,
                      !.human_feedback = feedback,
                      !.iteration_count = s.iteration_count + 1]
      [] action = "regenerate" ->
            [s EXCEPT !.approved = FALSE, !.awaiting_review = FALSE,
                      !.human_feedback = REGENERATE]

\* the state process_user_feedback has mutated before it resumes the engine
WebMutated(s, action, feedback) ==
    CASE action = "approve" ->
            [s EXCEPT !.approved = TRUE, !.awaiting_review = FALSE,
                      !.iteration_count = s.iteration_count + 1]
      [] action = "modify" ->
            [s EXCEPT !.approved = FALSE, !.awaiting_review = FALSE,
                      !.human_feedback = feedback,
                      !.iteration_count = s.iteration_count + 1]
      [] action = "regenerate" ->
            [s EXCEPT !.approved = FALSE, !.awaiting_review = FALSE,
                      !.human_feedback = REGENERATE,
                      !.iteration_count = s.iteration_count + 1]

\* returns the new current_state, the phases run and whether the engine was resumed
process_user_feedback(s, action, feedback, llm) ==
    LET m == WebMutated(s, action, feedback) IN
    IF action = "approve"
    THEN [state |-> m, ran |-> <<>>, resumed |-> FALSE]
    ELSE LET r == continue_after_feedback(m, llm)
         IN [state |-> r.state, ran |-> r.ran, resumed |-> TRUE]

\* st.session_state.awaiting_review as set at the end of process_user_feedback
WebAwaiting(s) ==
    IF s.approved THEN FALSE
    ELSE IF s.awaiting_review THEN TRUE
    ELSE FALSE

\* what main() of web_api.py shows on the next rerun
WebScreen(s, ssa) ==
    IF ssa THEN "review"
    ELSE IF s.approved THEN "results"
    ELSE "form"

----------------------------------------------------------------------------
(* Initial states *)

\* the structured fields of a request: each is None or a value
TripFields ==
    [origin : {None, "JFK"}, destination : {None, "LAX"},
     depart_date : {None, "2025-06-01"},
     check_in : {None, "2025-06-01"}, check_out : {None, "2025-06-05"}]

\* the requests of the sessions: free text only, destination only, all fields
SessionTrips ==
    {t \in TripFields :
        /\ (t.origin = None) = (t.depart_date = None)
        /\ (t.depart_date = None) = (t.check_in = None)
        /\ (t.check_in = None) = (t.check_out = None)
        /\ (t.destination = None) => (t.origin = None)}

\* default trip length of quick_run and of the wizard
DefaultDuration == 3

\* longest trip of the directly called functions
MaxDuration == 3

\* the state collect_trip_details, quick_run and the web form build
InitialState(request, trip, duration) ==
    [request |-> request,
     origin |-> trip.origin, destination |-> trip.destination,
     depart_date |-> trip.depart_date,
     check_in |-> trip.check_in, check_out |-> trip.check_out,
     duration |-> duration,
     messages |-> <<>>, notes |-> <<>>,
     draft_plan |-> "", plan |-> "",
     selected_tools |-> {}, tool_results |-> <<>>,
     human_feedback |-> None,
     approved |-> FALSE, awaiting_review |-> FALSE, iteration_count |-> 0]

FullTrip == CHOOSE t \in TripFields : \A f \in DOMAIN t : t[f] # None

\* values of the review fields of an arbitrary state
ReviewFields ==
    [approved : BOOLEAN, awaiting_review : BOOLEAN,
     human_feedback : {None, "", "cheaper hotels", REGENERATE},
     iteration_count : 0..MaxRounds]

WithReview(s, r) ==
    [s EXCEPT !.approved = r.approved, !.awaiting_review = r.awaiting_review,
              !.human_feedback = r.human_feedback,
              !.iteration_count = r.iteration_count]

\* arbitrary states that differ in the review fields and in the plans
ReviewStates ==
    {[WithReview(InitialState("beach trip", FullTrip, DefaultDuration), r)
        EXCEPT !.plan = p, !.draft_plan = d, !.notes = n]
        : r \in ReviewFields, p \in {"", "refined itinerary"},
          d \in {"", "draft itinerary"}, n \in {<<>>, <<"request enhanced">>}}

\* arbitrary states that differ in the request and in the selected tools
ToolStates ==
    {[InitialState(q, t, d) EXCEPT !.selected_tools = sel]
        : q \in {"", " ", "beach trip"}, t \in TripFields,
          d \in 1..MaxDuration, sel \in SUBSET Tools}

\* arbitrary states that still carry the conversation, the notes and the
\* tool results of an earlier pass
StaleStates ==
    {[InitialState(q, t, DefaultDuration)
        EXCEPT !.selected_tools = sel,
               !.tool_results = [k \in {ToolKey(x) : x \in Tools} |-> "live data"],
               !.messages = <<"user", "assistant">>,
               !.notes = <<"tools executed sequentially">>]
        : q \in {" ", "beach trip"}, t \in TripFields, sel \in SUBSET Tools}

\* arbitrary initial states given to travel_graph.invoke
GraphStates ==
    {WithReview(InitialState(q, t, DefaultDuration), r)
        : q \in {" ", "beach trip"}, t \in SessionTrips, r \in ReviewFields}

TypeOK ==
    /\ frontend \in {"cli", "web", "direct"}
    /\ auto_approve \in BOOLEAN
    /\ pc \in {"start", "form", "call", "graph", "loop", "review", "results",
               "done", "quit", "returned", "tools", "decided"}
    /\ node \in Nodes \cup {"idle", "END"}
    /\ ss_awaiting_review \in BOOLEAN
    /\ state.approved \in BOOLEAN
    /\ state.awaiting_review \in BOOLEAN
    /\ state.iteration_count \in Nat
    /\ state.selected_tools \subseteq Tools
    /\ DOMAIN state.tool_results \subseteq {ToolKey(t) : t \in Tools}
    /\ Len(arg) <= 1
    /\ rounds \in Nat
    /\ tool_pos \in 0..(Len(ToolOrder) + 1)
    /\ inflight \subseteq Tools
    /\ DOMAIN locals.tool_results \subseteq {ToolKey(t) : t \in Tools}

InitCommon ==
    /\ node = "idle"
    /\ ss_awaiting_review = FALSE
    /\ trace = <<>>
    /\ called = "none"
    /\ arg = <<>>
    /\ ret = "none"
    /\ rounds = 0
    /\ last_decision = "none"
    /\ outcome = <<>>
    /\ tool_pos = 0
    /\ inflight = {}
    /\ locals = [tool_results |-> <<>>, notes |-> <<>>]

\* a session: main() of main.py or the submitted form of web_api.py
Init ==
    /\ frontend \in {"cli", "web"}
    /\ auto_approve \in (IF frontend = "cli" THEN BOOLEAN ELSE {FALSE})
    /\ pc = (IF frontend = "cli" THEN "start" ELSE "form")
    /\ state \in {InitialState(q, t, DefaultDuration)
                    : q \in (IF frontend = "cli" THEN {" ", "beach trip"}
                                                 ELSE {"beach trip"}),
                      t \in SessionTrips}
    /\ InitCommon

\* a direct call of run_until_human_review
InitGraph ==
    /\ frontend = "direct"
    /\ auto_approve = FALSE
    /\ pc = "call"
    /\ state \in GraphStates
    /\ InitCommon

\* a direct call of one function of stategraph.py
InitFn ==
    /\ frontend = "direct"
    /\ auto_approve = FALSE
    /\ pc = "call"
    /\ state \in ReviewStates \cup ToolStates \cup StaleStates
    /\ InitCommon

\* longest tool result text, in words
MaxTextLen == 2

ToolTexts == UNION {[1..n -> TextWords] : n \in 1..MaxTextLen}

\* a plain result and the marker run_tools stores for a tool that raised
PlainTexts == {<<"listing">>, <<"Error:", "listing">>}

\* tool_results in which one tool carries an arbitrary text
FallbackResults ==
    {<<>>} \cup
    UNION {UNION {{[k \in K |-> IF k = v THEN x ELSE o[k]]
                        : x \in ToolTexts, o \in [K -> PlainTexts]}
                    : v \in K}
            : K \in SUBSET {ToolKey(t) : t \in Tools}}

\* states given to the phases whose collaborator is down
FallbackStates ==
    {[InitialState("beach trip", FullTrip, d)
        EXCEPT !.selected_tools = Tools, !.draft_plan = "clarified request",
               !.tool_results = tr]
        : d \in 1..MaxDuration, tr \in FallbackResults}

\* a direct call of draft_plan or refine_plan with the collaborator down
InitFallback ==
    /\ frontend = "direct"
    /\ auto_approve = FALSE
    /\ pc = "call"
    /\ state \in FallbackStates
    /\ InitCommon

\* a call of run_tools that is followed step by step
InitTools ==
    /\ frontend = "direct"
    /\ auto_approve = FALSE
    /\ pc = "call"
    /\ state \in ToolStates \cup StaleStates
    /\ InitCommon

----------------------------------------------------------------------------
(* Actions *)

\* travel_graph.invoke runs one node and follows its outgoing edge
GraphStep ==
    /\ UNCHANGED toolvars
    /\ pc = "graph"
    /\ node \in Nodes
    /\ \E c \in Choices(node, state) :
        /\ state' = RunNode(node, state, c)
        /\ node' = NextNode(node, state')
        /\ outcome' = <<c>>
    /\ trace' = Append(trace, node)
    /\ UNCHANGED <<frontend, auto_approve, pc, ss_awaiting_review, called, arg,
                   ret, rounds, last_decision>>

\* travel_graph.invoke returns to the caller of run_until_human_review
GraphReturn ==
    /\ UNCHANGED toolvars
    /\ pc = "graph"
    /\ node = "END"
    /\ node' = "idle"
    /\ ss_awaiting_review' =
            (IF frontend = "web" THEN state.awaiting_review ELSE ss_awaiting_review)
    /\ pc' = CASE frontend = "cli" -> "loop"
               [] frontend = "web" -> WebScreen(state, ss_awaiting_review')
               [] frontend = "direct" -> "returned"
    /\ UNCHANGED <<state, frontend, auto_approve, trace, called, arg, ret,
                   rounds, last_decision, outcome>>

\* run_until_human_review(state) is called
EnterGraph ==
    /\ UNCHANGED toolvars
    /\ node' = "enhance"
    /\ pc' = "graph"
    /\ called' = "run_until_human_review"
    /\ arg' = <<state>>
    /\ UNCHANGED <<state, frontend, auto_approve, ss_awaiting_review, trace, ret,
                   rounds, last_decision, outcome>>

\* run_travel_planner: phase 1
CliStart ==
    /\ frontend = "cli"
    /\ pc = "start"
    /\ EnterGraph

\* run_travel_planner: the loop is left because iteration_count >= MAX_ITERATIONS
CliMaxIterations ==
    /\ UNCHANGED toolvars
    /\ frontend = "cli"
    /\ pc = "loop"
    /\ state.iteration_count >= MAX_ITERATIONS
    /\ state' = CliForceApprove(state)
    /\ pc' = "done"
    /\ UNCHANGED <<frontend, auto_approve, node, ss_awaiting_review, trace, called,
                   arg, ret, rounds, last_decision, outcome>>

\* run_travel_planner: one pass of the loop below the max-iteration check
CliReviewRound ==
    /\ UNCHANGED toolvars
    /\ frontend = "cli"
    /\ pc = "loop"
    /\ state.iteration_count < MAX_ITERATIONS
    /\ \E choice \in CliChoices, feedback \in Feedbacks, llm \in LlmOutcomes :
        LET s1 == CliReviewed(state, auto_approve, choice, feedback)
            r == continue_after_feedback(s1, llm)
        IN /\ rounds' = IF state.awaiting_review THEN rounds + 1 ELSE rounds
           /\ last_decision' = CliDecision(state, auto_approve, choice)
           /\ IF s1.approved
              THEN /\ state' = s1
                   /\ pc' = "done"
                   /\ UNCHANGED <<trace, called, arg, outcome>>
              ELSE IF Truthy(s1.human_feedback)
              THEN /\ state' = r.state
                   /\ trace' = trace \o r.ran
                   /\ called' = "continue_after_feedback"
                   /\ arg' = <<s1>>
                   /\ outcome' = Consumed(r.ran, llm, outcome)
                   /\ pc' = "loop"
              ELSE /\ state' = s1
                   /\ pc' = "done"
                   /\ UNCHANGED <<trace, called, arg, outcome>>
    /\ UNCHANGED <<frontend, auto_approve, node, ss_awaiting_review, ret>>

\* human_review_cli: the reviewer quits (sys.exit)
CliQuit ==
    /\ UNCHANGED toolvars
    /\ frontend = "cli"
    /\ pc = "loop"
    /\ state.iteration_count < MAX_ITERATIONS
    /\ state.awaiting_review
    /\ ~auto_approve
    /\ pc' = "quit"
    /\ UNCHANGED <<state, frontend, auto_approve, node, ss_awaiting_review, trace,
                   called, arg, ret, rounds, last_decision, outcome>>

\* main() of web_api.py: the form is submitted
WebSubmit ==
    /\ frontend = "web"
    /\ pc = "form"
    /\ EnterGraph

\* a button of display_plan_review: process_user_feedback, then st.rerun()
WebFeedback ==
    /\ UNCHANGED toolvars
    /\ frontend = "web"
    /\ pc = "review"
    /\ rounds < MaxRounds
    /\ \E action \in WebActions, feedback \in Feedbacks, llm \in LlmOutcomes :
        LET r == process_user_feedback(state, action, feedback, llm) IN
        /\ state' = r.state
        /\ trace' = trace \o r.ran
        /\ outcome' = Consumed(r.ran, llm, outcome)
        /\ called' = IF r.resumed THEN "continue_after_feedback" ELSE called
        /\ arg' = IF r.resumed THEN <<WebMutated(state, action, feedback)>> ELSE arg
        /\ ss_awaiting_review' = WebAwaiting(r.state)
        /\ pc' = WebScreen(r.state, ss_awaiting_review')
        /\ last_decision' = action
    /\ rounds' = rounds + 1
    /\ UNCHANGED <<frontend, auto_approve, node, ret>>

\* a direct call of run_until_human_review
DirectRunUntil ==
    /\ frontend = "direct"
    /\ pc = "call"
    /\ EnterGraph

\* a direct call of continue_after_feedback
DirectContinue ==
    /\ UNCHANGED toolvars
    /\ frontend = "direct"
    /\ pc = "call"
    /\ \E llm \in LlmOutcomes :
        LET r == continue_after_feedback(state, llm) IN
        /\ state' = r.state
        /\ trace' = trace \o r.ran
        /\ outcome' = Consumed(r.ran, llm, outcome)
    /\ called' = "continue_after_feedback"
    /\ arg' = <<state>>
    /\ pc' = "returned"
    /\ UNCHANGED <<frontend, auto_approve, node, ss_awaiting_review, ret, rounds,
                   last_decision>>

\* a direct call of route_after_review
DirectRoute ==
    /\ UNCHANGED toolvars
    /\ frontend = "direct"
    /\ pc = "call"
    /\ ret' = route_after_review(state)
    /\ called' = "route_after_review"
    /\ arg' = <<state>>
    /\ pc' = "returned"
    /\ UNCHANGED <<state, frontend, auto_approve, node, ss_awaiting_review, trace,
                   rounds, last_decision, outcome>>

\* a direct call of one phase function
DirectPhase ==
    /\ UNCHANGED toolvars
    /\ frontend = "direct"
    /\ pc = "call"
    /\ \E n \in Nodes :
        /\ \E c \in Choices(n, state) :
                /\ state' = RunNode(n, state, c)
                /\ outcome' = <<c>>
        /\ trace' = Append(trace, n)
        /\ called' = n
    /\ arg' = <<state>>
    /\ pc' = "returned"
    /\ UNCHANGED <<frontend, auto_approve, node, ss_awaiting_review, ret, rounds,
                   last_decision>>

\* decide_tools(state) is called ahead of run_tools, as on the edge
\* decide_tools -> run_tools of the graph
ToolsDecide ==
    /\ pc = "call"
    /\ frontend = "direct"
    /\ \E sel \in SelectorOutcomes :
        /\ state' = decide_tools(state, sel)
        /\ outcome' = <<sel>>
    /\ called' = "decide_tools"
    /\ arg' = <<state>>
    /\ pc' = "decided"
    /\ UNCHANGED <<frontend, auto_approve, node, ss_awaiting_review, trace, ret,
                   rounds, last_decision, toolvars>>

\* run_tools(state) is entered: the locals are set up; the outcome records
\* the tool outcomes and how the preceding decide_tools, if any, selected
ToolsCall ==
    /\ pc \in {"call", "decided"}
    /\ frontend = "direct"
    /\ pc' = "tools"
    /\ called' = "run_tools"
    /\ arg' = <<state>>
    /\ tool_pos' = 1
    /\ inflight' = {}
    /\ locals' = [tool_results |-> <<>>, notes |-> state.notes]
    /\ outcome' = << <<>>, IF pc = "decided" THEN outcome[1].kind ELSE "none" >>
    /\ UNCHANGED <<state, frontend, auto_approve, node, ss_awaiting_review, trace,
                   ret, rounds, last_decision>>

\* control enters the block of the next tool: the tool is passed over when it
\* is not selected, noted as skipped when a field is missing, and invoked
\* otherwise
ToolBlock ==
    /\ pc = "tools"
    /\ tool_pos \in 1..Len(ToolOrder)
    /\ LET t == ToolOrder[tool_pos] IN
        /\ t \notin inflight
        /\ IF t \notin state.selected_tools
           THEN /\ tool_pos' = tool_pos + 1
                /\ UNCHANGED <<inflight, locals, trace>>
           ELSE IF ~Prereq(state, t)
           THEN /\ tool_pos' = tool_pos + 1
                /\ locals' = [locals EXCEPT !.notes = Append(@, ToolKey(t) \o ": skipped")]
                /\ UNCHANGED <<inflight, trace>>
           ELSE /\ inflight' = inflight \cup {t}
                /\ trace' = Append(trace, t)
                /\ tool_pos' = DuringInvoke(tool_pos)
                /\ UNCHANGED locals
    /\ UNCHANGED <<state, frontend, auto_approve, pc, node, ss_awaiting_review,
                   called, arg, ret, rounds, last_decision, outcome>>

\* the invoke of a tool returns or raises: its result and its note are
\* recorded and control leaves the block
ToolReturn ==
    /\ pc = "tools"
    /\ \E t \in inflight, o \in ToolOutcomes :
        /\ inflight' = inflight \ {t}
        /\ locals' = [tool_results |-> (ToolKey(t) :> ToolText(o)) @@ locals.tool_results,
                      notes |-> locals.notes \o ToolNote(state, t, t :> o)]
        /\ outcome' = [outcome EXCEPT ![1] = (t :> o) @@ @]
        /\ tool_pos' = IF tool_pos = ToolIndex(t) THEN tool_pos + 1 ELSE tool_pos
    /\ UNCHANGED <<state, frontend, auto_approve, pc, node, ss_awaiting_review,
                   trace, called, arg, ret, rounds, last_decision>>

\* run_tools returns {**state, "tool_results": tool_results, "notes": notes}
ToolsReturn ==
    /\ pc = "tools"
    /\ tool_pos = Len(ToolOrder) + 1
    /\ inflight = {}
    /\ state' = [state EXCEPT
                    !.tool_results = locals.tool_results,
                    !.notes = Append(locals.notes, "tools executed sequentially")]
    /\ pc' = "returned"
    /\ tool_pos' = 0
    /\ UNCHANGED <<frontend, auto_approve, node, ss_awaiting_review, trace, called,
                   arg, ret, rounds, last_decision, outcome, inflight, locals>>

\* draft_plan is called and the planner raises: the fallback outline
FallbackDraft ==
    /\ UNCHANGED toolvars
    /\ pc = "call"
    /\ frontend = "direct"
    /\ state' = draft_plan(state, "raise")
    /\ ret' = draft_fallback_outline(state.duration)
    /\ outcome' = <<"raise">>
    /\ trace' = Append(trace, "draft")
    /\ called' = "draft"
    /\ arg' = <<state>>
    /\ pc' = "returned"
    /\ UNCHANGED <<frontend, auto_approve, node, ss_awaiting_review, rounds,
                   last_decision>>

\* refine_plan is called and the refiner raises: the fallback template
FallbackRefine ==
    /\ UNCHANGED toolvars
    /\ pc = "call"
    /\ frontend = "direct"
    /\ state' = refine_plan(state, "raise")
    /\ ret' = generate_fallback_itinerary(tool_summaries(state.tool_results),
                                          state.duration)
    /\ outcome' = <<"raise">>
    /\ trace' = Append(trace, "refine")
    /\ called' = "refine"
    /\ arg' = <<state>>
    /\ pc' = "returned"
    /\ UNCHANGED <<frontend, auto_approve, node, ss_awaiting_review, rounds,
                   last_decision>>

Next ==
    \/ CliStart
    \/ WebSubmit
    \/ GraphStep
    \/ GraphReturn
    \/ CliMaxIterations
    \/ CliReviewRound
    \/ CliQuit
    \/ WebFeedback

NextGraph ==
    \/ DirectRunUntil
    \/ GraphStep
    \/ GraphReturn

NextFn ==
    \/ DirectContinue
    \/ DirectRoute
    \/ DirectPhase

NextTools ==
    \/ ToolsDecide
    \/ ToolsCall
    \/ ToolBlock
    \/ ToolReturn
    \/ ToolsReturn

NextFallback ==
    \/ FallbackDraft
    \/ FallbackRefine

\* a session of either front end
Spec == Init /\ [][Next]_vars

\* run_until_human_review on an arbitrary initial state
SpecGraph == InitGraph /\ [][NextGraph]_vars

\* one function of stategraph.py on an arbitrary state
SpecFn == InitFn /\ [][NextFn]_vars

\* one call of draft_plan or refine_plan with the collaborator down
SpecFallback == InitFallback /\ [][NextFallback]_vars

\* one call of run_tools on an arbitrary state, followed step by step
SpecTools == InitTools /\ [][NextTools]_vars

----------------------------------------------------------------------------
(* Properties *)

\* number of times phase p was executed
CountOf(seq, p) == Cardinality({i \in 1..Len(seq) : seq[i] = p})

\* the step resumed the engine through continue_after_feedback
Resumed == called' = "continue_after_feedback" /\ arg' # arg

\* C1: whatever the initial state, when run_until_human_review returns the
\* state is paused at human review: awaiting_review is true, approved is
\* false, human_review was the last phase executed and finalize never ran.
C1_RunPausesAtReview ==
    (called = "run_until_human_review" /\ pc = "returned")
        => /\ state.awaiting_review
           /\ ~state.approved
           /\ trace # <<>>
           /\ trace[Len(trace)] = "human_review"
           /\ CountOf(trace, "finalize") = 0

\* a run from an approved state that is already past the iteration bound
C1_Witness ==
    /\ called = "run_until_human_review"
    /\ pc = "returned"
    /\ arg[1].approved
    /\ ~arg[1].awaiting_review
    /\ arg[1].iteration_count >= MAX_ITERATIONS
    /\ state.awaiting_review

\* C2: in a session of either front end the number of completed review
\* rounds (and iteration_count with it) never exceeds MAX_ITERATIONS.
C2_RoundsBounded ==
    /\ rounds <= MAX_ITERATIONS
    /\ state.iteration_count <= MAX_ITERATIONS

\* C3: in every reachable state of a session, awaiting_review implies
\* that approved is false.
C3_AwaitingNotApproved == state.awaiting_review => ~state.approved

\* the CLI loop has just forced the approval of a plan paused for review
C3_Witness ==
    /\ frontend = "cli"
    /\ pc = "done"
    /\ rounds = MAX_ITERATIONS
    /\ last_decision \in {"modify", "regenerate"}
    /\ state.approved
    /\ ~state.awaiting_review

C5_FifthFeedbackFinalizes ==
    (rounds = MAX_ITERATIONS /\ last_decision \in {"modify", "regenerate"})
        => /\ trace[Len(trace)] = "finalize"
           /\ ~state.awaiting_review

\* C6: when the reviewer has approved, the session has ended with
\* approved = true and awaiting_review = false, and finalize has been
\* executed exactly once.
C6_ApproveFinalizesOnce ==
    last_decision = "approve"
        => /\ state.approved
           /\ ~state.awaiting_review
           /\ CountOf(trace, "finalize") = 1

\* C7: every review decision raises iteration_count by exactly 1, and has
\* cleared awaiting_review when continue_after_feedback is called (or, when
\* the engine is not resumed, in the state the decision leaves).
C7_DecisionCountsAndClears ==
    [][rounds' = rounds + 1 =>
        /\ state'.iteration_count = state.iteration_count + 1
        /\ IF Resumed
           THEN /\ arg'[1].iteration_count = state.iteration_count + 1
                /\ ~arg'[1].awaiting_review
           ELSE ~state'.awaiting_review]_vars

\* the web reviewer has asked for a regeneration and the engine was resumed
C7_Witness ==
    /\ frontend = "web"
    /\ last_decision = "regenerate"
    /\ called = "continue_after_feedback"
    /\ arg[1].human_feedback = REGENERATE
    /\ arg[1].iteration_count = rounds

\* C8: iteration_count never decreases: the graph run and
\* continue_after_feedback leave it as they found it, and only a review
\* decision changes it.
C8_IterationMonotone ==
    [][/\ state'.iteration_count >= state.iteration_count
       /\ pc = "graph" => state'.iteration_count = state.iteration_count
       /\ Resumed => state'.iteration_count = arg'[1].iteration_count
       /\ rounds' = rounds => state'.iteration_count = state.iteration_count]_vars

\* a session that has been through several review rounds
C8_Witness ==
    /\ rounds >= 3
    /\ state.iteration_count >= 3
    /\ state.awaiting_review
    /\ called = "continue_after_feedback"

C10_ResumeDispatch ==
    (called = "continue_after_feedback" /\ pc = "returned")
        => /\ arg[1].approved
                => /\ trace = <<"finalize">>
                   /\ state.messages = arg[1].messages
                   /\ state.human_feedback = arg[1].human_feedback
                   /\ state.plan # "" => state.plan \in {arg[1].plan, arg[1].draft_plan}
           /\ (~arg[1].approved /\ Truthy(arg[1].human_feedback))
                => /\ Len(trace) = 2
                   /\ trace[1] = "refine"
                   /\ trace[2] = "human_review"
                   /\ state.human_feedback = None
                   /\ Len(state.messages) = Len(arg[1].messages) + 2

\* a resume with both approved and human_feedback set, still flagged as paused
C10_Witness ==
    /\ called = "continue_after_feedback"
    /\ pc = "returned"
    /\ arg[1].approved
    /\ arg[1].awaiting_review
    /\ Truthy(arg[1].human_feedback)
    /\ trace = <<"finalize">>

\* C11: for every state given to finalize, also one whose plan and
\* draft_plan are both empty, the plan of the returned state is non-empty.
C11_FinalizePlanNonEmpty ==
    (called = "finalize" /\ pc = "returned") => state.plan # ""

\* C12: in every reachable state of a session with approved = true, the
\* plan is non-empty.
C12_ApprovedPlanNonEmpty == state.approved => state.plan # ""

\* the structured fields a tool needs
RequiredFields(t) ==
    CASE t = "find_flights" -> {"origin", "destination", "depart_date"}
      [] t = "find_hotels" -> {"destination", "check_in", "check_out"}
      [] t = "attraction_finder" -> {"destination"}
      [] t = "weather_checker" -> {"destination"}

FieldsPresent(s, t) == \A f \in RequiredFields(t) : s[f] # None /\ s[f] # ""

\* the notes a call appended to the notes it was given
Appended(before, after) == SubSeq(after.notes, Len(before.notes) + 1, Len(after.notes))

InSeq(x, seq) == \E i \in 1..Len(seq) : seq[i] = x

\* C13: after run_tools a tool's key is in tool_results only if all of the
\* tool's required fields are present; a selected tool with a missing field
\* is not invoked (no live, mock or error note), has no tool_results entry
\* and gets a skip note.
C13_ToolSkipLaw ==
    (called = "run_tools" /\ pc = "returned") =>
        /\ Len(state.notes) > Len(arg[1].notes)
        /\ \A t \in Tools :
            LET k == ToolKey(t)
                new == Appended(arg[1], state)
            IN /\ k \in DOMAIN state.tool_results => FieldsPresent(arg[1], t)
               /\ (t \in arg[1].selected_tools /\ ~FieldsPresent(arg[1], t)) =>
                    /\ k \notin DOMAIN state.tool_results
                    /\ InSeq(k \o ": skipped", new)
                    /\ ~InSeq(k \o ": live data", new)
                    /\ ~InSeq(k \o ": mock data", new)
                    /\ ~InSeq(k \o ": error", new)

\* flights selected without a departure date, on a state that still held a
\* flights result; the weather tool ran
C13_Witness ==
    /\ called = "run_tools"
    /\ pc = "returned"
    /\ "find_flights" \in arg[1].selected_tools
    /\ arg[1].origin # None
    /\ arg[1].destination # None
    /\ arg[1].depart_date = None
    /\ "flights" \in DOMAIN arg[1].tool_results
    /\ "flights" \notin DOMAIN state.tool_results
    /\ "weather" \in DOMAIN state.tool_results

\* C14: in every reachable state of a session, each key of tool_results is
\* the key of a tool that is in selected_tools (which no phase after
\* decide_tools changes).
C14_ResultsOnlyForSelected ==
    \A k \in DOMAIN state.tool_results :
        \E t \in state.selected_tools : ToolKey(t) = k

\* a paused session in which only one of two selected tools produced a result
C14_Witness ==
    /\ state.awaiting_review
    /\ Cardinality(state.selected_tools) = 2
    /\ DOMAIN state.tool_results = {"weather"}
    /\ state.origin = None

\* C15: when a tool raises inside run_tools, run_tools still returns: the
\* error marker is stored under the tool's key, an error note is appended,
\* and every selected tool whose required fields are present, the later
\* ones included, has been invoked and has its own result and note.
C15_ToolFailureIsolated ==
    (called = "run_tools" /\ pc = "returned") =>
        LET new == Appended(arg[1], state) IN
        /\ new # <<>>
        /\ new[Len(new)] = "tools executed sequentially"
        /\ \A t \in Tools :
            (t \in arg[1].selected_tools /\ FieldsPresent(arg[1], t)) =>
                LET k == ToolKey(t) IN
                /\ k \in DOMAIN state.tool_results
                /\ IF outcome[1][t] = "raise"
                   THEN /\ state.tool_results[k] = "Error: failed"
                        /\ InSeq(k \o ": error", new)
                   ELSE /\ state.tool_results[k] \in {"live data", "mock data"}
                        /\ InSeq(k \o ": " \o state.tool_results[k], new)

\* the flights tool raised and the three later tools still returned data
C15_Witness ==
    /\ called = "run_tools"
    /\ pc = "returned"
    /\ DOMAIN outcome[1] = Tools
    /\ outcome[1]["find_flights"] = "raise"
    /\ state.tool_results["flights"] = "Error: failed"
    /\ \A k \in {"hotels", "attractions", "weather"} :
            state.tool_results[k] \in {"live data", "mock data"}

\* the phases that call the language-model collaborator
LlmPhases == {"enhance", "draft", "decide_tools", "refine"}

\* the collaborator raised in the phase function that was called
LlmRaised ==
    CASE called = "decide_tools" -> outcome[1].kind = "raise"
      [] called \in {"enhance", "draft", "refine"} -> outcome[1] = "raise"
      [] called = "continue_after_feedback" -> outcome = <<"raise">>
      [] OTHER -> FALSE

\* C16: when the language-model collaborator raises in enhance, draft,
\* decide_tools or refine (called directly or by continue_after_feedback),
\* the phase returns: the state carries the phase's deterministic fallback
\* output and the exchange and the note the phase appends.
C16_LlmFailureContained ==
    (pc = "returned" /\ LlmRaised) =>
        /\ Len(state.messages) = Len(arg[1].messages) + 2
        /\ Len(state.notes) > Len(arg[1].notes)
        /\ called = "enhance" => state.draft_plan = "Mock: Clarified travel request"
        /\ called = "draft" => state.draft_plan = "Day-by-Day Outline"
        /\ called = "decide_tools" =>
                state.selected_tools = {t \in Tools : FieldsPresent(arg[1], t)}
        /\ called = "refine" => state.plan = "fallback itinerary"
        /\ called = "continue_after_feedback" =>
                /\ state.plan = "fallback itinerary"
                /\ state.awaiting_review

\* the refiner raised while consuming feedback on an earlier plan
C16_Witness ==
    /\ pc = "returned"
    /\ called = "refine"
    /\ outcome = <<"raise">>
    /\ Truthy(arg[1].human_feedback)
    /\ arg[1].plan = "refined itinerary"
    /\ state.plan = "fallback itinerary"

\* the collaborator returned in the call that consumed outcome c
Returned(n, c) == IF n = "decide_tools" THEN c.kind # "raise" ELSE c # "raise"

\* C17: when the language-model collaborator raises inside enhance, draft,
\* decide_tools or refine, the notes the phase appends record the failure:
\* they are not the notes of a call in which the collaborator returned.
C17_LlmFailureNoted ==
    (pc = "returned" /\ called \in LlmPhases /\ LlmRaised) =>
        \A c \in Choices(called, arg[1]) :
            Returned(called, c) =>
                Appended(arg[1], state) # Appended(arg[1], RunNode(called, arg[1], c))

\* the text between the first "[" and the last "]" of a response, when both
\* exist in that order, is not a JSON array
Unparsable(text) ==
    \/ ~ \E i \in 1..Len(text) : text[i] = "["
    \/ ~ \E i, j \in 1..Len(text) : i < j /\ text[i] = "[" /\ text[j] = "]"
    \/ \E i, j \in 1..Len(text) :
            /\ text[i] = "[" /\ \A k \in 1..(i - 1) : text[k] # "["
            /\ text[j] = "]" /\ \A k \in (j + 1)..Len(text) : text[k] # "]"
            /\ i < j
            /\ ~json_loads_ok(SubSeq(text, i, j))

\* the selector returned a response text to the decide_tools that was called
SelectorReturned ==
    pc = "returned" /\ called = "decide_tools" /\ outcome[1].kind = "text"

\* C18: when the selector returns a response with no parsable JSON array
\* between its first "[" and its last "]", decide_tools leaves selected_tools
\* empty; whatever the response, the selection holds only tools the response
\* names, so the prerequisite fallback is not used when the selector returned.
C18_ParseFailureSelectsNothing ==
    SelectorReturned =>
        /\ Unparsable(outcome[1].text) => state.selected_tools = {}
        /\ \A t \in state.selected_tools :
                \E i \in 1..Len(outcome[1].text) : outcome[1].text[i] = Quote(t)

\* the selector answered in single quotes, as its prompt does, on a trip
\* whose fields would let the fallback select every tool
C18_Witness ==
    /\ SelectorReturned
    /\ outcome[1].text = <<"[", "'find_flights'", ",", "'find_hotels'", "]">>
    /\ \A t \in Tools : FieldsPresent(arg[1], t)
    /\ state.selected_tools = {}

\* C19: when the selector raises in decide_tools, selected_tools holds
\* find_flights iff origin, destination and depart_date are present,
\* find_hotels iff destination, check_in and check_out are present, and
\* attraction_finder and weather_checker iff destination is present.
C19_FallbackSelectsByPrerequisites ==
    (pc = "returned" /\ called = "decide_tools" /\ outcome[1].kind = "raise") =>
        LET given(f) == arg[1][f] # None /\ arg[1][f] # "" IN
        /\ "find_flights" \in state.selected_tools
                <=> (given("origin") /\ given("destination") /\ given("depart_date"))
        /\ "find_hotels" \in state.selected_tools
                <=> (given("destination") /\ given("check_in") /\ given("check_out"))
        /\ "attraction_finder" \in state.selected_tools <=> given("destination")
        /\ "weather_checker" \in state.selected_tools <=> given("destination")

\* the selector raised on a trip with a destination and a check-in date but
\* no check-out date and no origin: the destination tools alone are selected
C19_Witness ==
    /\ pc = "returned"
    /\ called = "decide_tools"
    /\ outcome[1].kind = "raise"
    /\ arg[1].destination # None
    /\ arg[1].check_in # None
    /\ arg[1].check_out = None
    /\ arg[1].origin = None
    /\ arg[1].selected_tools = Tools
    /\ state.selected_tools = {"attraction_finder", "weather_checker"}

\* a request with free text and no structured field
FreeTextOnly(s) ==
    /\ strip(s.request) # ""
    /\ \A f \in {"origin", "destination", "depart_date", "check_in", "check_out"} :
            s[f] = None

\* number of "skipped" entries in a list of notes
SkippedNotes(notes) ==
    Cardinality({i \in 1..Len(notes) :
                    \E t \in Tools : notes[i] = ToolKey(t) \o ": skipped"})

\* C21: for a request with only free text, when run_until_human_review
\* returns, neither find_flights nor find_hotels is selected, tool_results
\* is empty and notes hold four "skipped" entries.
C21_FreeTextScenario ==
    (called = "run_until_human_review" /\ pc = "returned" /\ FreeTextOnly(arg[1])) =>
        /\ "find_flights" \notin state.selected_tools
        /\ "find_hotels" \notin state.selected_tools
        /\ DOMAIN state.tool_results = {}
        /\ SkippedNotes(state.notes) = 4

\* every structured field of the request is present
AllFieldsPresent(s) ==
    \A f \in {"origin", "destination", "depart_date", "check_in", "check_out"} :
        s[f] # None /\ s[f] # ""

\* run_tools noted that it invoked tool t (data or error)
Attempted(t, notes) ==
    \E i \in 1..Len(notes) :
        notes[i] \in {ToolKey(t) \o ": live data", ToolKey(t) \o ": mock data",
                      ToolKey(t) \o ": error"}

\* C22 as stated: when every structured field is present, after
\* run_until_human_review tool_results has the four keys flights, hotels,
\* attractions and weather.
C22_Original ==
    (called = "run_until_human_review" /\ pc = "returned" /\ AllFieldsPresent(arg[1])) =>
        DOMAIN state.tool_results = {"flights", "hotels", "attractions", "weather"}

\* C22 amended: when every structured field is present, after
\* run_until_human_review exactly the tools in selected_tools have been
\* attempted, none was skipped, and tool_results has exactly their keys:
\* the four keys when all four tools were selected.
C22_FullTripScenario ==
    (called = "run_until_human_review" /\ pc = "returned" /\ AllFieldsPresent(arg[1])) =>
        /\ DOMAIN state.tool_results = {ToolKey(t) : t \in state.selected_tools}
        /\ \A t \in Tools : Attempted(t, state.notes) <=> t \in state.selected_tools
        /\ SkippedNotes(state.notes) = 0
        /\ state.selected_tools = Tools =>
                DOMAIN state.tool_results = {"flights", "hotels", "attractions", "weather"}

\* a run on a full request in which all four tools were selected and
\* attempted, one of them failing
C22_Witness ==
    /\ called = "run_until_human_review"
    /\ pc = "returned"
    /\ AllFieldsPresent(arg[1])
    /\ state.selected_tools = Tools
    /\ DOMAIN state.tool_results = {"flights", "hotels", "attractions", "weather"}
    /\ state.tool_results["hotels"] = "Error: failed"
    /\ \A t \in Tools : Attempted(t, state.notes)

\* sequence p is a prefix of sequence q
IsPrefix(p, q) == Len(p) <= Len(q) /\ SubSeq(q, 1, Len(p)) = p

\* C23: notes is append-only: for every phase function and every state it
\* is given, the notes of that state are a prefix of the notes of the state
\* it returns.
C23_NotesAppendOnly ==
    (pc = "returned" /\ called \in Nodes) => IsPrefix(arg[1].notes, state.notes)

\* phase n calls the language-model collaborator when given state s
CallsLlm(n, s) == n \in LlmPhases /\ ~(n = "enhance" /\ strip(s.request) = "")

\* C24: the conversation is append-only and chronological: every phase
\* returns messages that have the messages it was given as a prefix, and
\* each language-model phase (enhance with a non-empty request, draft,
\* decide_tools, refine, also when resumed by continue_after_feedback)
\* appends exactly one user message followed by one assistant message,
\* whether the collaborator returned or raised.
C24_ConversationAppendOnly ==
    (pc = "returned" /\ called \in Nodes \cup {"continue_after_feedback"}) =>
        /\ IsPrefix(arg[1].messages, state.messages)
        /\ (called \in Nodes /\ CallsLlm(called, arg[1])) =>
                state.messages = arg[1].messages \o <<"user", "assistant">>
        /\ (called = "continue_after_feedback" /\ CountOf(trace, "refine") = 1) =>
                state.messages = arg[1].messages \o <<"user", "assistant">>

\* the planner raised in draft on a state that already held a conversation
C24_Witness ==
    /\ pc = "returned"
    /\ called = "draft"
    /\ outcome = <<"raise">>
    /\ arg[1].messages = <<"user", "assistant">>
    /\ state.messages = <<"user", "assistant", "user", "assistant">>

\* C25: whenever run_travel_planner has returned, whatever the reviewer
\* chose in each round and with or without auto_approve, the returned state
\* has approved = true and awaiting_review = false.
C25_CliReturnsApproved ==
    (frontend = "cli" /\ pc = "done") => (state.approved /\ ~state.awaiting_review)

\* the reviewer asked for changes twice and then approved
C25_Witness ==
    /\ frontend = "cli"
    /\ pc = "done"
    /\ ~auto_approve
    /\ last_decision = "approve"
    /\ rounds = 3
    /\ CountOf(trace, "refine") = 3
    /\ state.approved
    /\ ~state.awaiting_review

\* C26: for every initial state, one with an empty request included,
\* run_until_human_review executes enhance, draft, decide_tools, run_tools,
\* refine and human_review in exactly that order, each exactly once, and
\* at every moment of the run the phases executed so far begin that order.
C26_PhaseOrder ==
    LET order == <<"enhance", "draft", "decide_tools", "run_tools", "refine",
                   "human_review">>
    IN /\ called = "run_until_human_review" => IsPrefix(trace, order)
       /\ (called = "run_until_human_review" /\ pc = "returned") => trace = order

\* a run on a blank request, from a state already approved with feedback set
C26_Witness ==
    /\ called = "run_until_human_review"
    /\ pc = "returned"
    /\ strip(arg[1].request) = ""
    /\ arg[1].approved
    /\ Truthy(arg[1].human_feedback)
    /\ Len(trace) = 6
    /\ trace[2] = "draft"
    /\ state.notes[1] = "request missing"

C28_RefineResetsReview ==
    (pc = "returned"
        /\ (called = "refine"
             \/ (called = "continue_after_feedback" /\ CountOf(trace, "refine") > 0))) =>
        /\ ~state.approved
        /\ state.human_feedback = None

\* refine fell back to the template on a state that was approved and
\* carried feedback
C28_Witness ==
    /\ pc = "returned"
    /\ called = "refine"
    /\ outcome = <<"raise">>
    /\ arg[1].approved
    /\ arg[1].human_feedback = "cheaper hotels"
    /\ state.plan = "fallback itinerary"
    /\ ~state.approved
    /\ state.human_feedback = None

\* C29: human_review is a pure flagging step: it sets awaiting_review,
\* appends exactly one note, which records the iteration number, consumes
\* no collaborator outcome and leaves every other field (approved,
\* human_feedback, iteration_count, plan, draft_plan, selected_tools,
\* tool_results, messages and the request fields) as it was given.
C29_HumanReviewFrame ==
    (pc = "returned" /\ called = "human_review") =>
        /\ state.awaiting_review
        /\ Appended(arg[1], state) =
                <<"awaiting human review (iteration "
                    \o ToString(arg[1].iteration_count + 1) \o "/5)">>
        /\ IsPrefix(arg[1].notes, state.notes)
        /\ outcome = <<"none">>
        /\ \A f \in DOMAIN state \ {"awaiting_review", "notes"} : state[f] = arg[1][f]

\* human_review on an approved state with feedback, notes and tool choices
C29_Witness ==
    /\ pc = "returned"
    /\ called = "human_review"
    /\ arg[1].approved
    /\ ~arg[1].awaiting_review
    /\ arg[1].human_feedback = REGENERATE
    /\ arg[1].iteration_count = 3
    /\ arg[1].notes # <<>>
    /\ state.approved
    /\ state.awaiting_review
    /\ state.notes[Len(state.notes)] = "awaiting human review (iteration 4/5)"

\* the step-by-step run_tools returns what run_tools returns in one step
StepwiseAgrees ==
    (pc = "returned" /\ called = "run_tools") =>
        state = run_tools(arg[1], outcome[1])

\* C30: run_tools invokes the tools one at a time in the order flights,
\* hotels, attractions, weather: at most one invocation is in progress,
\* control has not passed the block of a tool whose invocation is in
\* progress, and the invocations started so far are in that order.
C30_ToolsSequential ==
    /\ Cardinality(inflight) <= 1
    /\ \A t \in inflight : tool_pos = ToolIndex(t)
    /\ pc \in {"tools", "returned"} =>
            \A i, j \in 1..Len(trace) :
                i < j => ToolIndex(trace[i]) < ToolIndex(trace[j])
    /\ pc = "returned" => (inflight = {} /\ Len(trace) = Cardinality(Invoked(arg[1])))

\* the flights invocation has failed, the hotels invocation has returned
\* and the attractions invocation is in progress
C30_Witness ==
    /\ pc = "tools"
    /\ inflight = {"attraction_finder"}
    /\ trace = <<"find_flights", "find_hotels", "attraction_finder">>
    /\ tool_pos = 3
    /\ locals.tool_results["flights"] = "Error: failed"
    /\ locals.tool_results["hotels"] = "live data"
    /\ "weather_checker" \in state.selected_tools

\* C31: when the request is empty or whitespace, enhance calls no
\* collaborator, leaves the conversation as it was, sets draft_plan and
\* plan to the empty text and records a note; with a non-empty request it
\* calls the collaborator (which returns or raises) and appends the exchange
\* to the conversation.
C31_EnhanceShortCircuit ==
    (pc = "returned" /\ called = "enhance") =>
        IF arg[1].request \in {"", " "}
        THEN /\ outcome = <<"none">>
             /\ state.messages = arg[1].messages
             /\ state.draft_plan = ""
             /\ state.plan = ""
             /\ InSeq("request missing", state.notes)
        ELSE /\ outcome[1] \in LlmOutcomes
             /\ state.messages = arg[1].messages \o <<"user", "assistant">>
             /\ outcome[1] = "raise" => state.draft_plan = "Mock: Clarified travel request"
             /\ outcome[1] = "text" => state.draft_plan = "clarified request"
             /\ InSeq("request enhanced", Appended(arg[1], state))

\* enhance on a whitespace request, on a state that held a conversation
C31_Witness ==
    /\ pc = "returned"
    /\ called = "enhance"
    /\ arg[1].request = " "
    /\ arg[1].messages = <<"user", "assistant">>
    /\ state.messages = <<"user", "assistant">>
    /\ state.draft_plan = ""
    /\ state.notes = <<"request missing">>

\* C32: in the web front end, when the review screen is shown with
\* iteration_count >= MAX_ITERATIONS - 1 (the announced last iteration),
\* the next review decision finalizes the plan: whatever the reviewer does,
\* the state is approved and no further review screen is shown.
C32_LastIterationFinalizes ==
    [][(frontend = "web" /\ pc = "review"
            /\ state.iteration_count >= MAX_ITERATIONS - 1
            /\ rounds' = rounds + 1)
        => (pc' = "results" /\ state'.approved /\ ~state'.awaiting_review)]_vars

\* the outline entries that name day k
EntriesFor(outline, k) ==
    {i \in 1..Len(outline) : outline[i].first <= k /\ k <= outline[i].last}

\* an outline of a d-day trip labels Day 1 as arrival, Day d as departure,
\* exactly the days strictly between as exploration, names no other day and
\* has one entry for each day
OutlineOK(outline, d) ==
    /\ \A i \in 1..Len(outline) :
            /\ outline[i].first <= outline[i].last
            /\ outline[i].first >= 1
            /\ outline[i].last <= d
    /\ \E i \in EntriesFor(outline, 1) : outline[i].label = "Arrival"
    /\ \E i \in EntriesFor(outline, d) : outline[i].label = "Departure"
    /\ \A k \in 1..d :
            /\ Cardinality(EntriesFor(outline, k)) = 1
            /\ (\E i \in EntriesFor(outline, k) : outline[i].label = "Exploration")
                    <=> (1 < k /\ k < d)

\* C33: for every trip duration d >= 1 the fallback outline of draft_plan
\* and the day-by-day outline of the fallback itinerary label Day 1 as
\* arrival, Day d as departure and exactly the days strictly between 1 and
\* d as exploration, with one entry per day 1..d.
C33_FallbackOutlines ==
    (pc = "returned" /\ called \in {"draft", "refine"} /\ arg[1].duration >= 1) =>
        OutlineOK(IF called = "draft" THEN ret ELSE ret.days, arg[1].duration)

\* the labels of the data-source summary that mark data as not live
PartialLabels ==
    {"Partial/fallback data", "Unavailable or estimated", "General recommendations",
     "Demo/sample data"}

\* C34: when refine falls back to the template, every key of tool_results,
\* the keys that hold the error marker of run_tools included, has an entry
\* in the template's data-source summary, labelled live data or
\* partial/fallback data.
C34_EverySourceListed ==
    (pc = "returned" /\ called = "refine" /\ outcome = <<"raise">>) =>
        \A k \in DOMAIN arg[1].tool_results :
            /\ k \in DOMAIN ret.data_sources
            /\ ret.data_sources[k] \in PartialLabels \cup {"Live data"}

\* a result text carries a failure, mock, demo or partial marker
Marked(text) ==
    \/ ContainsLower(text, "error:")
    \/ ContainsLower(text, "mock")
    \/ ContainsLower(text, "demo")
    \/ Contains(text, "PARTIAL RESULTS")

\* C35: in the refine fallback template a tool result whose text carries a
\* failure, mock, demo or partial marker is labelled partial/fallback data
\* and never live data, for each of flights, hotels, attractions, weather.
C35_MarkedNeverLive ==
    (pc = "returned" /\ called = "refine" /\ outcome = <<"raise">>) =>
        \A k \in DOMAIN arg[1].tool_results :
            Marked(arg[1].tool_results[k]) =>
                /\ k \in DOMAIN ret.data_sources
                /\ ret.data_sources[k] \in PartialLabels

FirstPassPhases == {"enhance", "draft", "decide_tools", "run_tools"}

C38_ApprovedPlanWasReviewed ==
    (frontend = "cli" /\ pc = "done" /\ state.approved) =>
        /\ rounds = CountOf(trace, "refine")
        /\ last_decision \in {"approve", "auto"}

\* the state run_travel_planner's last branch is written for
Inconsistent(s) == ~s.approved /\ ~Truthy(s.human_feedback) /\ ~s.awaiting_review

\* C40: in a session driven by run_travel_planner the inconsistent routing
\* state (not approved, no feedback, not awaiting review) does not occur once
\* the engine has returned: the loop always starts on a paused state, a
\* review decision leaves the state approved or with non-empty feedback, a
\* feedback resume ends in a pause, and the driver only stops on an approved
\* state, so its "unexpected state" branch is never taken.
C40_NoUnexpectedState ==
    [][(frontend = "cli" /\ pc = "loop") =>
        /\ ~Inconsistent(state)
        /\ ~Inconsistent(state')
        /\ state.iteration_count < MAX_ITERATIONS =>
                /\ state.awaiting_review
                /\ \/ pc' = "done" /\ state'.approved /\ rounds' = rounds + 1
                   \/ /\ pc' = "loop" /\ Resumed /\ rounds' = rounds + 1
                      /\ ~arg'[1].approved /\ Truthy(arg'[1].human_feedback)
                      /\ state'.awaiting_review /\ ~state'.approved
                   \/ pc' = "quit"
        /\ pc' = "done" => state'.approved]_vars

\* the driver is back at the top of its loop after a "modify" resume
C40_Witness ==
    /\ frontend = "cli" /\ pc = "loop" /\ ~auto_approve
    /\ last_decision = "modify" /\ rounds = 2
    /\ called = "continue_after_feedback"
    /\ arg[1].human_feedback = "cheaper hotels"
    /\ state.awaiting_review /\ ~state.approved

\* C39: when decide_tools selected through its fallback (the selector
\* raised), the run_tools that follows skips nothing: every selected tool is
\* invoked, the notes it appends hold no "skipped" entry, and the keys of
\* tool_results are exactly the keys of the selected tools.
C39_FallbackSelectionRuns ==
    (pc = "returned" /\ called = "run_tools" /\ outcome[2] = "raise") =>
        /\ DOMAIN outcome[1] = state.selected_tools
        /\ \A t \in state.selected_tools : InSeq(t, trace)
        /\ Len(trace) = Cardinality(state.selected_tools)
        /\ SkippedNotes(Appended(arg[1], state)) = 0
        /\ DOMAIN state.tool_results = {ToolKey(t) : t \in state.selected_tools}

\* a trip with a destination and hotel dates but no origin: the fallback
\* selected three tools, all were invoked, and the weather call failed
C39_Witness ==
    /\ pc = "returned" /\ called = "run_tools" /\ outcome[2] = "raise"
    /\ ~Truthy(state.origin)
    /\ state.selected_tools = {"find_hotels", "attraction_finder", "weather_checker"}
    /\ trace = <<"find_hotels", "attraction_finder", "weather_checker">>
    /\ outcome[1]["weather_checker"] = "raise"
    /\ state.tool_results["weather"] = "Error: failed"
    /\ state.tool_results["hotels"] = "live data"

====
